---------------------------- MODULE Spec2Model ----------------------------
(***************************************************************************)
(* Model of Junctions.c (src/arch/Junctions_annotated.c): the once-per-    *)
(* level preparation of wall junctions and white (shading) pieces          *)
(* (init_walls, init_whites, norm_whites, close_whites, one_close,         *)
(* white_hash_merge, no_close_wh) and the clipped piece writers            *)
(* (white_wall_piece, eor_wall_piece).                                     *)
(*                                                                         *)
(* Arrays that the C code terminates with a sentinel (x = 20000) are       *)
(* sequences holding the entries in front of the first sentinel; reading   *)
(* one slot past the end yields the sentinel.  The counters numjunctions   *)
(* and numwhites are separate variables, as in the C code.  C ints are     *)
(* 16 bit; bit patterns are kept as unsigned values 0..65535.              *)
(*                                                                         *)
(* Steps 1 and 2 of init_walls (the per-kind linked lists and firstwhite)  *)
(* only write the walls' next/nextwh links, which nothing below reads;     *)
(* they are not part of the state.                                         *)
(***************************************************************************)
EXTENDS Integers, Sequences, FiniteSets, TLC

(***************************************************************************)
(* Bounds of the model.                                                    *)
(***************************************************************************)
MaxWalls == 2
MaxPieces == 3
MaxFan == 4

(***************************************************************************)
(* Program constants.                                                      *)
(***************************************************************************)
SENTINEL == 20000
SCRWTH == 512
VIEWHT == 318
SBARHT == 24
worldwidth == 128
backgr1 == 43690
backgr2 == 21845

\* A 32 bit long is the pair << high word, low word >>; the high word is the
\* left half of the long on the screen.
LEFT_CLIP == << 0, 65535 >>
RIGHT_CLIP == << 65535, 0 >>
CENTER_CLIP == << 65535, 65535 >>

NEW_S == 1
NEW_SSE == 2
NEW_SE == 3
NEW_ESE == 4
NEW_E == 5
NEW_ENE == 6
NEW_NE == 7
NEW_NNE == 8

(***************************************************************************)
(* 16 and 32 bit arithmetic.                                               *)
(***************************************************************************)
Pow2(n) == 2 ^ n

Bit(v, b) == (v \div Pow2(b)) % 2

RECURSIVE BitAnd(_, _, _)
BitAnd(a, b, n) ==
  IF n = 0 THEN 0
  ELSE (a % 2) * (b % 2) + 2 * BitAnd(a \div 2, b \div 2, n - 1)

RECURSIVE BitOr(_, _, _)
BitOr(a, b, n) ==
  IF n = 0 THEN 0
  ELSE (IF (a % 2) + (b % 2) > 0 THEN 1 ELSE 0)
       + 2 * BitOr(a \div 2, b \div 2, n - 1)

RECURSIVE BitXor(_, _, _)
BitXor(a, b, n) ==
  IF n = 0 THEN 0
  ELSE (((a % 2) + (b % 2)) % 2) + 2 * BitXor(a \div 2, b \div 2, n - 1)

Not16(a) == 65535 - a
Not32(v) == << 65535 - v[1], 65535 - v[2] >>
And32(v, w) == << BitAnd(v[1], w[1], 16), BitAnd(v[2], w[2], 16) >>
Or32(v, w) == << BitOr(v[1], w[1], 16), BitOr(v[2], w[2], 16) >>
Xor32(v, w) == << BitXor(v[1], w[1], 16), BitXor(v[2], w[2], 16) >>

\* rol.w #1, v
Rol16(v) == ((v * 2) % 65536) + (v \div 32768)

\* rol.l s, v   (1 <= s <= 16)
Rol32(v, s) ==
  << (v[1] % Pow2(16 - s)) * Pow2(s) + (v[2] \div Pow2(16 - s)),
     (v[2] % Pow2(16 - s)) * Pow2(s) + (v[1] \div Pow2(16 - s)) >>

Abs(n) == IF n < 0 THEN -n ELSE n

(***************************************************************************)
(* The static bit patterns.                                                *)
(***************************************************************************)
hash_figure == <<32768, 24576, 6144, 1536, 384, 64>>

Tables ==
  [ neglitch   |-> <<61439, 53247, 36863, 4095>>,
    eneglitch1 |-> <<2047, 8191, 32767>>,
    eneglitch2 |-> <<65343, 64575, 61503, 49215, 63>>,
    eseglitch  |-> <<16383, 53247, 62463, 65023>>,
    generictop |-> <<65535, 16383, 4095, 1023, 255, 127>>,
    nnebot     |-> <<32783, 49183, 61471, 64575, 65343, 65535>>,
    nebot      |-> <<32769, 49155, 61447, 64527, 65311, 65535>>,
    eneleft    |-> <<32768, 49152, 61440, 64513, 65287, 65503>>,
    eleft      |-> <<65535, 65535, 61440, 64512, 65280, 65408>>,
    eseright   |-> <<65535, 16383, 36863, 58367, 63743, 65151>>,
    setop      |-> <<65535, 65535, 61439, 62463, 63743, 64575>>,
    sebot      |-> <<34815, 50175, 61951, 64767, 65407, 65535>>,
    ssetop     |-> <<65535, 49151, 53247, 50175, 57599, 57407>>,
    ssebot     |-> <<33023, 49279, 61567, 64575, 65343, 65535>>,
    sbot       |-> <<32831, 49215, 61503, 64575, 65343, 65535>>,
    nepatch    |-> <<57344, 49153, 32771, 7>> ]

\* A pointer to a bit pattern: a table and an offset (in ints) into it.
\* "whitestorage" and "npatch" are the two tables written at run time.
Ptr(t) == [tab |-> t, off |-> 0]
NULL == [tab |-> "NULL", off |-> 0]

whitepicts ==
  << <<Ptr("generictop"), Ptr("sbot")>>,
     <<Ptr("ssetop"), Ptr("ssebot")>>,
     <<Ptr("setop"), Ptr("sebot")>>,
     <<NULL, Ptr("eseright")>>,
     <<Ptr("eleft"), Ptr("generictop")>>,
     <<Ptr("eneleft"), Ptr("generictop")>>,
     <<Ptr("nebot"), Ptr("generictop")>>,
     <<Ptr("nnebot"), Ptr("generictop")>> >>

simpleh1 == <<6, 6, 6, 12, 16, 0, 1, 0>>
simpleh2 == <<0, 0, 0, -1, 0, -11, -5, -5>>

(***************************************************************************)
(* The wall list handed to init_walls.  A wall's end point follows from    *)
(* its start, direction and length; the list is sorted by startx and ends  *)
(* with a record of type 0 placed far to the right.                        *)
(***************************************************************************)
DeltaX(t, len) ==
  CASE t = NEW_S -> 0
    [] t \in {NEW_SSE, NEW_NNE} -> len \div 2
    [] OTHER -> len

DeltaY(t, len) ==
  CASE t = NEW_E -> 0
    [] t \in {NEW_S, NEW_SSE, NEW_SE} -> len
    [] t = NEW_ESE -> len \div 2
    [] t = NEW_ENE -> -(len \div 2)
    [] OTHER -> -len

MkLine(t, sx, sy, len) ==
  [ type |-> 1, newtype |-> t, startx |-> sx, starty |-> sy,
    endx |-> sx + DeltaX(t, len), endy |-> sy + DeltaY(t, len),
    length |-> len, h1 |-> 0, h2 |-> 0 ]

\* The wall of direction t and length len whose start (e = 0) or end (e = 1)
\* is the point a.
WallAt(t, e, a, len) ==
  IF e = 0 THEN MkLine(t, a[1], a[2], len)
  ELSE MkLine(t, a[1] - DeltaX(t, len), a[2] - DeltaY(t, len), len)

\* The walls the lists are drawn from: every direction, long with its start
\* at (100, 50), long and short with its end at (100, 50), and short with its
\* end 3 pixels to the right of it; one wall far from all of these; and the
\* two walls that one_close narrows, at the lengths at which its largest
\* rule leaves h1 = h2 (a South wall of 27 ending at (100, 50), a NE wall of
\* 30 starting there).
FarWall == MkLine(NEW_S, 60, 10, 6)

WallPool ==
  { WallAt(t, 0, <<100, 50>>, 20) : t \in 1..8 }
  \cup { WallAt(t, 1, <<100, 50>>, len) : t \in 1..8, len \in {6, 20} }
  \cup { WallAt(t, 1, <<103, 50>>, 6) : t \in 1..8 }
  \cup { FarWall }
  \cup { WallAt(NEW_S, 1, <<100, 50>>, 27), WallAt(NEW_NE, 0, <<100, 50>>, 30) }

EndLine ==
  [ type |-> 0, newtype |-> 0, startx |-> 10000, starty |-> 0,
    endx |-> 10000, endy |-> 0, length |-> 0, h1 |-> 0, h2 |-> 0 ]

SortedByStartx(ws) ==
  \A k \in 1..(Len(ws) - 1) : ws[k].startx <= ws[k + 1].startx

WallLists ==
  { ws \in UNION { [1..n -> WallPool] : n \in 1..MaxWalls } : SortedByStartx(ws) }

VARIABLES
  lines,         \* the wall list, without its type-0 terminator
  junctions,     \* junctions[] up to the first sentinel
  numjunctions,
  whites,        \* whites[] up to the first sentinel
  numwhites,
  whitestorage,  \* the ints of whitestorage[0 .. whitesused)
  whitesused,
  npatch,
  pc,            \* the place the preparation has reached
  ctl,           \* the loop variables of the running loop
  hist,          \* what happened so far (read by the properties only)
  draw           \* the arguments and the effect of one piece writer call

vars == << lines, junctions, numjunctions, whites, numwhites, whitestorage,
           whitesused, npatch, pc, ctl, hist, draw >>


(***************************************************************************)
(* Reading an array one slot past its live entries yields the sentinel.    *)
(* The sentinel's other fields are never read: every loop tests x first.   *)
(***************************************************************************)
JAt(js, k) == IF k >= 1 /\ k <= Len(js) THEN js[k] ELSE [x |-> SENTINEL, y |-> 0]

WAt(ws, k) ==
  IF k >= 1 /\ k <= Len(ws) THEN ws[k]
  ELSE [x |-> SENTINEL, y |-> 0, hasj |-> FALSE, ht |-> 0, data |-> NULL, own |-> 0]

LineAt(ls, k) == IF k >= 1 /\ k <= Len(ls) THEN ls[k] ELSE EndLine

\* What storing the sentinel at slot n (0-based) leaves visible of an array.
Pad(s, n) == IF n < Len(s) THEN SubSeq(s, 1, n) ELSE s

RemoveAt(s, k) == SubSeq(s, 1, k - 1) \o SubSeq(s, k + 1, Len(s))

Swap(s, a, b) == [s EXCEPT ![a] = s[b], ![b] = s[a]]

EndX(line, i) == IF i = 1 THEN line.endx ELSE line.startx
EndY(line, i) == IF i = 1 THEN line.endy ELSE line.starty

(***************************************************************************)
(* init_walls, step 3: find the junctions.                                 *)
(***************************************************************************)
\* A mutant of NearJunction that forgets the y axis.
NearJunctionNoY(j, x, y) == j.x <= x + 3 /\ j.x >= x - 3

\* A mutant of NearJunction with a threshold of 2.
NearJunctionStrict(j, x, y) ==
  j.x < x + 3 /\ j.x > x - 3 /\ j.y < y + 3 /\ j.y > y - 3

NearJunction(j, x, y) ==
  j.x <= x + 3 /\ j.x >= x - 3 /\ j.y <= y + 3 /\ j.y >= y - 3

\* for (j=junctions; j < lastj; j++) if (near) break;  -- the index reached
RECURSIVE JScan(_, _, _, _)
JScan(js, k, x, y) ==
  IF k > Len(js) THEN k
  ELSE IF NearJunction(js[k], x, y) THEN k
  ELSE JScan(js, k + 1, x, y)

NextEndpoint(c) ==
  IF c.i = 0 THEN [c EXCEPT !.i = 1] ELSE [c EXCEPT !.line = c.line + 1, !.i = 0]

FindJunction ==
  /\ pc = "junctions"
  /\ ctl.line <= Len(lines)
  /\ LET line == lines[ctl.line]
         x == EndX(line, ctl.i)
         y == EndY(line, ctl.i)
         k == JScan(junctions, 1, x, y)
         new == k > Len(junctions)
         js == IF new THEN Append(junctions, [x |-> x, y |-> y]) ELSE junctions
     IN /\ junctions' = js
        /\ numjunctions' = IF new THEN numjunctions + 1 ELSE numjunctions
        /\ hist' = [hist EXCEPT !.rep = Append(@, js[k]), !.jins = js]
  /\ ctl' = NextEndpoint(ctl)
  /\ UNCHANGED << lines, whites, numwhites, whitestorage, whitesused, npatch, pc, draw >>

(***************************************************************************)
(* init_walls, step 4: insertion sort by x, then the sentinels; step 5     *)
(* enters init_whites, which clears whitesused and numwhites.              *)
(***************************************************************************)
\* A mutant of JBefore that also moves a junction in front of an equal x.
JBeforeOrEqual(a, b) == a.x <= b.x

JBefore(a, b) == a.x < b.x

RECURSIVE JSink(_, _)
JSink(s, m) ==
  IF m > 1 /\ JBefore(s[m], s[m - 1]) THEN JSink(Swap(s, m, m - 1), m - 1) ELSE s

RECURSIVE JSortFrom(_, _)
JSortFrom(s, j) == IF j > Len(s) THEN s ELSE JSortFrom(JSink(s, j), j + 1)

SortJunctions ==
  /\ pc = "junctions"
  /\ ctl.line > Len(lines)
  /\ junctions' = Pad(JSortFrom(junctions, 1), numjunctions)
  /\ whitesused' = 0
  /\ numwhites' = 0
  /\ pc' = "norm"
  /\ UNCHANGED << lines, numjunctions, whites, whitestorage, npatch, ctl, hist, draw >>

(***************************************************************************)
(* add_white, replace_white_2, add_white_2.  They work on a record         *)
(* [lines, whites, numwhites, calls, entries]; "own" records the wall a    *)
(* piece was made for and is read by the properties only, as are the logs  *)
(* "calls" (of one_close) and "entries" (of the calls one_close makes      *)
(* through its function pointer).                                          *)
(***************************************************************************)
add_white(st, x, y, ht, data, own) ==
  [st EXCEPT
     !.whites = Append(SubSeq(st.whites, 1, st.numwhites),
                       [x |-> x, y |-> y, hasj |-> FALSE, ht |-> ht,
                        data |-> data, own |-> own]),
     !.numwhites = st.numwhites + 1]

\* for (wh=whites; wh < whites + numwhites && (no match); wh++) ;
RECURSIVE ReplaceScan(_, _, _, _, _)
ReplaceScan(st, k, targetx, targety, ht) ==
  IF k > st.numwhites THEN k
  ELSE IF WAt(st.whites, k).y # targety \/ WAt(st.whites, k).x # targetx
          \/ WAt(st.whites, k).ht >= ht
       THEN ReplaceScan(st, k + 1, targetx, targety, ht)
  ELSE k

\* A mutant of replace_white_2 that appends the piece when it finds none to
\* replace.
replace_white_2_append(st, targetx, targety, x, y, ht, data, own) ==
  LET k == ReplaceScan(st, 1, targetx, targety, ht)
  IN IF k > st.numwhites THEN add_white(st, x, y, ht, data, own)
     ELSE [st EXCEPT !.whites[k] =
             [@ EXCEPT !.x = x, !.y = y, !.ht = ht, !.data = data, !.own = own]]

replace_white_2(st, targetx, targety, x, y, ht, data, own) ==
  LET k == ReplaceScan(st, 1, targetx, targety, ht)
  IN IF k > st.numwhites THEN st
     ELSE [st EXCEPT !.whites[k] =
             [@ EXCEPT !.x = x, !.y = y, !.ht = ht, !.data = data, !.own = own]]

add_white_2(st, dummyx, dummyy, x, y, ht, data, own) ==
  add_white(st, x, y, ht, data, own)

(***************************************************************************)
(* norm_whites: the end point pieces of every wall and the glitch pieces.  *)
(***************************************************************************)
NormEnd(st, l, i) ==
  LET line == st.lines[l]
  IN IF whitepicts[line.newtype][i + 1] # NULL
     THEN add_white(st, EndX(line, i), EndY(line, i), 6,
                    whitepicts[line.newtype][i + 1], l)
     ELSE st

\* A mutant of NormGlitch that adds no glitch piece.
NormGlitchNone(st, l) == st

NormGlitch(st, l) ==
  LET line == st.lines[l]
  IN CASE line.newtype = NEW_NE ->
            add_white(st, line.endx - 4, line.endy + 2, 4, Ptr("neglitch"), l)
       [] line.newtype = NEW_ENE ->
            add_white(
              add_white(st, line.startx + 16, line.starty, 3, Ptr("eneglitch1"), l),
              line.endx - 10, line.endy + 1, 5, Ptr("eneglitch2"), l)
       [] line.newtype = NEW_ESE ->
            add_white(st, line.endx - 7, line.endy - 2, 4, Ptr("eseglitch"), l)
       [] OTHER -> st

RECURSIVE NormFrom(_, _)
NormFrom(st, l) ==
  IF l > Len(st.lines) THEN st
  ELSE NormFrom(NormGlitch(NormEnd(NormEnd(st, l, 0), l, 1), l), l + 1)

St == [lines |-> lines, whites |-> whites, numwhites |-> numwhites,
       calls |-> hist.calls, entries |-> hist.entries]

NormWhites ==
  /\ pc = "norm"
  /\ LET st == NormFrom(St, 1)
     IN /\ whites' = st.whites
        /\ numwhites' = st.numwhites
  /\ pc' = "close"
  /\ UNCHANGED << lines, junctions, numjunctions, whitestorage, whitesused,
                  npatch, ctl, hist, draw >>

(***************************************************************************)
(* one_close: the patch rule for end n of wall l meeting end m of wall l2. *)
(***************************************************************************)
\* dir = 9 - newtype;  if (end point) dir = (dir + 8) & 15;
Dir(newtype, n) == IF n = 1 THEN ((9 - newtype) + 8) % 16 ELSE 9 - newtype

\* A mutant of Case0Size with the sizes of two rules exchanged.
Case0SizeSwapped(dir2) ==
  CASE dir2 \in {15, 1} -> 21
    [] dir2 = 2 -> 6
    [] dir2 \in {3, 14} -> 10
    [] OTHER -> 0

\* The inner switch of case 0; 0 stands for "default: return".
Case0Size(dir2) ==
  CASE dir2 \in {15, 1} -> 21
    [] dir2 = 2 -> 10
    [] dir2 \in {3, 14} -> 6
    [] OTHER -> 0

\* The inner switch of case 2; 0 stands for "default: return".
Case2Count(dir2) ==
  CASE dir2 = 0 -> 3
    [] dir2 = 1 -> 6
    [] dir2 = 3 -> 4
    [] dir2 = 14 -> 1
    [] dir2 = 15 -> 2
    [] OTHER -> 0

\* case 0, after the inner switch has set i.
OneCloseCase0(st, l, i) ==
  LET line == st.lines[l]
      j == line.h2
  IN IF line.length - i > j THEN st
     ELSE LET patched ==
                IF j < line.length
                THEN replace_white_2(st, line.startx, line.starty + j,
                                     line.endx, line.endy - i, i, Ptr("npatch"), l)
                ELSE add_white_2(st, line.startx, line.starty + j,
                                 line.endx, line.endy - i, i, Ptr("npatch"), l)
          IN [patched EXCEPT
                !.lines[l].h2 = line.length - i,
                !.entries = Append(@,
                  [fn |-> IF j < line.length THEN "replace_white_2"
                          ELSE "add_white_2",
                   wall |-> l, h2 |-> j, length |-> line.length,
                   targetx |-> line.startx, targety |-> line.starty + j,
                   x |-> line.endx, y |-> line.endy - i, ht |-> i,
                   data |-> Ptr("npatch"),
                   before |-> SubSeq(st.whites, 1, st.numwhites),
                   after |-> SubSeq(patched.whites, 1, patched.numwhites)])]

\* for (j = 0; j < 4*i; j += 4) if (line->h1 < 5 + j) add_white(...);
RECURSIVE Case2Patches(_, _, _, _)
Case2Patches(st, l, i, j) ==
  IF j >= 4 * i THEN st
  ELSE LET line == st.lines[l]
       IN Case2Patches(
            IF line.h1 < 5 + j
            THEN add_white(st, line.startx + 3 + j, line.starty - 4 - j, 4,
                           Ptr("nepatch"), l)
            ELSE st,
            l, i, j + 4)

\* A mutant of OneCloseCase2 without the i-- in front of j = 5 + 4*i.
OneCloseCase2NoDec(st, l, i) ==
  LET added == Case2Patches(st, l, i, 0)
      j == 5 + 4 * i
  IN IF added.lines[l].h1 < j THEN [added EXCEPT !.lines[l].h1 = j] ELSE added

\* case 2, after the inner switch has set i.
OneCloseCase2(st, l, i) ==
  LET added == Case2Patches(st, l, i, 0)
      j == 5 + 4 * (i - 1)
  IN IF added.lines[l].h1 < j THEN [added EXCEPT !.lines[l].h1 = j] ELSE added

one_close(st0, l, l2, n, m) ==
  LET st == [st0 EXCEPT !.calls = Append(@, <<l, l2, n, m>>)]
      dir1 == Dir(st.lines[l].newtype, n)
      dir2 == Dir(st.lines[l2].newtype, m)
  IN IF dir1 = dir2 THEN st
     ELSE CASE dir1 = 0 ->
                 IF Case0Size(dir2) = 0 THEN st
                 ELSE OneCloseCase0(st, l, Case0Size(dir2))
            [] dir1 = 2 ->
                 IF Case2Count(dir2) = 0 THEN st
                 ELSE OneCloseCase2(st, l, Case2Count(dir2))
            [] OTHER -> st

(***************************************************************************)
(* close_whites: the h1/h2 defaults, then the sweep over close end points. *)
(***************************************************************************)
RECURSIVE SetDefaults(_, _)
SetDefaults(ls, l) ==
  IF l > Len(ls) THEN ls
  ELSE SetDefaults(
         [ls EXCEPT ![l].h1 = simpleh1[ls[l].newtype],
                    ![l].h2 = ls[l].length + simpleh2[ls[l].newtype]],
         l + 1)

CloseInit ==
  /\ pc = "close"
  /\ npatch' = [k \in 1..22 |-> 63]
  /\ lines' = SetDefaults(lines, 1)
  /\ ctl' = [ctl EXCEPT !.line = 1, !.first = 1]
  /\ pc' = "closeloop"
  /\ UNCHANGED << junctions, numjunctions, whites, numwhites, whitestorage,
                  whitesused, hist, draw >>

\* A mutant of SkipFirst that tests the start of the wall, not its end.
RECURSIVE SkipFirstByStart(_, _, _)
SkipFirstByStart(ls, first, l) ==
  IF LineAt(ls, first).startx < ls[l].startx - 3
  THEN SkipFirstByStart(ls, first + 1, l)
  ELSE first

\* while (first->endx < line->startx - 3) first++;
RECURSIVE SkipFirst(_, _, _)
SkipFirst(ls, first, l) ==
  IF LineAt(ls, first).endx < ls[l].startx - 3 THEN SkipFirst(ls, first + 1, l)
  ELSE first

\* x2, y2 are the other end point moved up and left by 3.
InBox(x1, y1, x2, y2) == x1 > x2 /\ y1 > y2 /\ x1 < x2 + 6 /\ y1 < y2 + 6

\* for (j=0; j<2; j++) ...
RECURSIVE CloseEnds(_, _, _, _, _)
CloseEnds(st, l, i, l2, j) ==
  IF j >= 2 THEN st
  ELSE LET x1 == EndX(st.lines[l], i)
           y1 == EndY(st.lines[l], i)
           x2 == EndX(st.lines[l2], j) - 3
           y2 == EndY(st.lines[l2], j) - 3
       IN CloseEnds(IF InBox(x1, y1, x2, y2) THEN one_close(st, l, l2, i, j) ELSE st,
                    l, i, l2, j + 1)

\* for (line2=first; line2->startx < x1 + 3; line2++) ...
RECURSIVE CloseCandidates(_, _, _, _)
CloseCandidates(st, l, i, l2) ==
  IF LineAt(st.lines, l2).startx < EndX(st.lines[l], i) + 3
  THEN CloseCandidates(CloseEnds(st, l, i, l2, 0), l, i, l2 + 1)
  ELSE st

CloseLine ==
  /\ pc = "closeloop"
  /\ ctl.line <= Len(lines)
  /\ LET first == SkipFirst(lines, ctl.first, ctl.line)
         st == CloseCandidates(CloseCandidates(St, ctl.line, 0, first),
                               ctl.line, 1, first)
     IN /\ lines' = st.lines
        /\ whites' = st.whites
        /\ numwhites' = st.numwhites
        /\ hist' = [hist EXCEPT !.calls = st.calls, !.entries = st.entries]
        /\ ctl' = [ctl EXCEPT !.line = ctl.line + 1, !.first = first]
  /\ UNCHANGED << junctions, numjunctions, whitestorage, whitesused, npatch, pc, draw >>

(***************************************************************************)
(* init_whites: insertion sort by (x, y), then the sentinels.              *)
(***************************************************************************)
\* A mutant of WBefore that compares x alone.
WBeforeX(a, b) == a.x < b.x

WBefore(a, b) == a.x <= b.x /\ (a.x < b.x \/ a.y < b.y)

RECURSIVE WSink(_, _)
WSink(s, m) ==
  IF m > 1 /\ WBefore(s[m], s[m - 1]) THEN WSink(Swap(s, m, m - 1), m - 1) ELSE s

RECURSIVE WSortFrom(_, _, _)
WSortFrom(s, k, n) == IF k > n THEN s ELSE WSortFrom(WSink(s, k), k + 1, n)

SortWhites ==
  /\ pc = "closeloop"
  /\ ctl.line > Len(lines)
  /\ whites' = Pad(WSortFrom(whites, 1, numwhites), numwhites)
  /\ hist' = [hist EXCEPT !.created = SubSeq(whites, 1, numwhites),
                          !.sorted = whites']
  /\ ctl' = [ctl EXCEPT !.wh = 1]
  /\ pc' = "merge"
  /\ UNCHANGED << lines, junctions, numjunctions, numwhites, whitestorage,
                  whitesused, npatch, draw >>

(***************************************************************************)
(* init_whites: the merge loop.                                            *)
(***************************************************************************)
\* data[i] of a piece (i = 0 ..), read through its pointer.
MemIn(storage, patch, ptr, i) ==
  CASE ptr.tab = "whitestorage" -> storage[ptr.off + i + 1]
    [] ptr.tab = "npatch" -> patch[ptr.off + i + 1]
    [] OTHER -> Tables[ptr.tab][ptr.off + i + 1]

Mem(ptr, i) == MemIn(whitestorage, npatch, ptr, i)

InStorage(ptr) == ptr.tab = "whitestorage" /\ ptr.off < whitesused

\* Storing six ints at whitestorage + off.
Store(off, vals) ==
  [k \in 1..(IF off + 6 > Len(whitestorage) THEN off + 6 ELSE Len(whitestorage)) |->
     IF k > off /\ k <= off + 6 THEN vals[k - off]
     ELSE IF k <= Len(whitestorage) THEN whitestorage[k] ELSE 0]

\* the test of the while loop at piece wh
MergeCond(ws, wh) ==
  /\ ws[wh].x = WAt(ws, wh + 1).x
  /\ ws[wh].y = WAt(ws, wh + 1).y
  /\ ws[wh].ht = 6
  /\ WAt(ws, wh + 1).ht = 6

\* A mutant of MergeRow that ORs the rows.
MergeRowOr(a, b) == BitOr(a, b, 16)

\* newdata[i] = wh->data[i] & (wh+1)->data[i]
MergeRow(a, b) == BitAnd(a, b, 16)

\* A mutant of AfterMerge: an "if" in place of the "while".
AfterMergeIf(wh) == wh + 1

\* The piece the loop tests after a merge: the while loop tests wh again.
AfterMerge(wh) == wh

MergeStep ==
  /\ pc = "merge"
  /\ ctl.wh <= Len(whites)
  /\ MergeCond(whites, ctl.wh)
  /\ LET wh == ctl.wh
         newdata == [i \in 1..6 |->
                       MergeRow(Mem(whites[wh].data, i - 1),
                                Mem(whites[wh + 1].data, i - 1))]
     IN /\ whitestorage' = Store(whitesused, newdata)
        /\ whitesused' = whitesused + 6
        /\ whites' = RemoveAt(
                       [whites EXCEPT ![wh].data =
                          [tab |-> "whitestorage", off |-> whitesused]],
                       wh + 1)
        /\ numwhites' = numwhites - 1
        /\ ctl' = [ctl EXCEPT !.wh = AfterMerge(wh)]
  /\ UNCHANGED << lines, junctions, numjunctions, npatch, pc, hist, draw >>

MergeNext ==
  /\ pc = "merge"
  /\ ctl.wh <= Len(whites)
  /\ ~MergeCond(whites, ctl.wh)
  /\ ctl' = [ctl EXCEPT !.wh = ctl.wh + 1]
  /\ UNCHANGED << lines, junctions, numjunctions, whites, numwhites, whitestorage,
                  whitesused, npatch, pc, hist, draw >>

\* The loop has reached the sentinel; init_whites calls white_hash_merge.
MergeDone ==
  /\ pc = "merge"
  /\ ctl.wh > Len(whites)
  /\ ctl' = [ctl EXCEPT !.wh = 1, !.j = 1]
  /\ pc' = "hash"
  /\ UNCHANGED << lines, junctions, numjunctions, whites, numwhites, whitestorage,
                  whitesused, npatch, hist, draw >>

(***************************************************************************)
(* no_close_wh and white_hash_merge.                                       *)
(***************************************************************************)
CloseY(w2, w1) == w2.y < w1.y + 3 /\ w2.y > w1.y - 3

\* for (w2=w1-1; w2 >= whites && w2->x > w1->x - 3; w2--) ...
RECURSIVE NoCloseBefore(_, _, _)
NoCloseBefore(ws, w1, w2) ==
  IF w2 >= 1 /\ ws[w2].x > ws[w1].x - 3
  THEN IF CloseY(ws[w2], ws[w1]) THEN FALSE ELSE NoCloseBefore(ws, w1, w2 - 1)
  ELSE TRUE

\* for (w2=w1+1; w2->x < w1->x + 3; w2++) ...
RECURSIVE NoCloseAfter(_, _, _)
NoCloseAfter(ws, w1, w2) ==
  IF WAt(ws, w2).x < ws[w1].x + 3
  THEN IF CloseY(ws[w2], ws[w1]) THEN FALSE ELSE NoCloseAfter(ws, w1, w2 + 1)
  ELSE TRUE

no_close_wh(ws, w1) ==
  IF NoCloseBefore(ws, w1, w1 - 1) THEN NoCloseAfter(ws, w1, w1 + 1) ELSE FALSE

\* while (j > junctions && j->x >= wh->x) j--;
RECURSIVE JBack(_, _, _)
JBack(js, j, w) ==
  IF j > 1 /\ JAt(js, j).x >= w.x THEN JBack(js, j - 1, w) ELSE j

\* while (j->x <= wh->x && j->y != wh->y) j++;
RECURSIVE JForward(_, _, _)
JForward(js, j, w) ==
  IF JAt(js, j).x <= w.x /\ JAt(js, j).y # w.y THEN JForward(js, j + 1, w) ELSE j

\* A mutant of JMatch that is content with the y coordinate.
JMatchY(jn, w) == jn.x <= w.x /\ jn.y = w.y

\* if (j->x == wh->x && j->y == wh->y)
JMatch(jn, w) == jn.x = w.x /\ jn.y = w.y

\* The six rows of the crosshatched pattern; back is rotated after each row.
RECURSIVE HashRows(_, _, _)
HashRows(ptr, back, i) ==
  IF i >= 6 THEN << >>
  ELSE << BitXor(BitAnd(back,
                        BitOr(Not16(Mem(ptr, i)), hash_figure[i + 1], 16), 16),
                 hash_figure[i + 1], 16) >>
       \o HashRows(ptr, Rol16(back), i + 1)

\* A mutant of RemoveJunction that leaves the junction in the list.
RemoveJunctionKeep(js, j) == js

\* for (movej = j; movej->x < 20000; movej++) *movej = movej[1];
RemoveJunction(js, j) == RemoveAt(js, j)

HashVisit ==
  /\ pc = "hash"
  /\ WAt(whites, ctl.wh).x < worldwidth - 8
  /\ LET wh == ctl.wh
         w == whites[wh]
         isolated == no_close_wh(whites, wh)
         tried == w.ht = 6 /\ isolated /\ w.x > 8
         j == IF tried THEN JForward(junctions, JBack(junctions, ctl.j, w), w)
              ELSE ctl.j
         hit == tried /\ JMatch(JAt(junctions, j), w)
         back == IF (w.x + w.y) % 2 = 1 THEN backgr2 ELSE backgr1
         newdata == IF InStorage(w.data) THEN w.data
                    ELSE [tab |-> "whitestorage", off |-> whitesused]
     IN /\ IF hit
           THEN /\ whitestorage' = Store(newdata.off, HashRows(w.data, back, 0))
                /\ whitesused' = IF InStorage(w.data) THEN whitesused
                                 ELSE whitesused + 6
                /\ whites' = [whites EXCEPT ![wh].data = newdata, ![wh].hasj = TRUE]
                /\ junctions' = RemoveJunction(junctions, j)
                /\ numjunctions' = numjunctions - 1
           ELSE UNCHANGED << whitestorage, whitesused, whites, junctions, numjunctions >>
        /\ ctl' = [ctl EXCEPT !.wh = wh + 1, !.j = j]
        /\ hist' = [hist EXCEPT !.visits =
                      Append(@, [wh |-> wh, x |-> w.x, y |-> w.y, ht |-> w.ht,
                                 isolated |-> isolated,
                                 onjunction |-> \E k \in 1..numjunctions :
                                                   k <= Len(junctions)
                                                   /\ junctions[k].x = w.x
                                                   /\ junctions[k].y = w.y,
                                 hashed |-> hit])]
  /\ UNCHANGED << lines, numwhites, npatch, pc, draw >>

HashDone ==
  /\ pc = "hash"
  /\ WAt(whites, ctl.wh).x >= worldwidth - 8
  /\ pc' = "done"
  /\ UNCHANGED << lines, junctions, numjunctions, whites, numwhites, whitestorage,
                  whitesused, npatch, ctl, hist, draw >>

(***************************************************************************)
(* The preparation, from the entry of step 3 of init_walls.                *)
(***************************************************************************)
Ctl0 == [line |-> 1, i |-> 0, first |-> 1, wh |-> 1, j |-> 1, pass |-> 0]

Hist0 == [rep |-> << >>, jins |-> << >>, sorted |-> << >>, calls |-> << >>,
          entries |-> << >>, created |-> << >>, visits |-> << >>, n1 |-> 0]

Draw0 == [fn |-> "none"]

Init ==
  /\ lines \in WallLists
  /\ junctions = << >>
  /\ numjunctions = 0
  /\ whites = << >>
  /\ numwhites = 0
  /\ whitestorage = << >>
  /\ whitesused = 0
  /\ npatch = [k \in 1..22 |-> 0]
  /\ pc = "junctions"
  /\ ctl = Ctl0
  /\ hist = Hist0
  /\ draw = Draw0

Next ==
  \/ FindJunction
  \/ SortJunctions
  \/ NormWhites
  \/ CloseInit
  \/ CloseLine
  \/ SortWhites
  \/ MergeStep
  \/ MergeNext
  \/ MergeDone
  \/ HashVisit
  \/ HashDone

Spec == Init /\ [][Next]_vars

(***************************************************************************)
(* The preparation for three or more walls, one of them a South wall       *)
(* ending at (100, 50): the lists on which one_close reaches its function  *)
(* pointer more than once for the same wall.  The walls are the long walls *)
(* of the pool whose orientation at (100, 50) is one that the rules of     *)
(* one_close name (0, 1, 2, 3, 14 or 15), and the far wall, which the      *)
(* sweep of close_whites leaves behind its first pointer.                  *)
(***************************************************************************)
SouthEnd == WallAt(NEW_S, 1, <<100, 50>>, 20)

FanWalls ==
  { w \in WallPool :
      /\ w.length = 20
      /\ \E e \in {0, 1} :
            /\ EndX(w, e) = 100 /\ EndY(w, e) = 50
            /\ Dir(w.newtype, e) \in {0, 1, 2, 3, 14, 15} }
  \cup { FarWall }

FanLists ==
  { ws \in UNION { [1..n -> FanWalls] : n \in 3..MaxFan } :
      /\ SortedByStartx(ws)
      /\ \E k \in 1..Len(ws) : ws[k] = SouthEnd }

InitFan ==
  /\ lines \in FanLists
  /\ junctions = << >>
  /\ numjunctions = 0
  /\ whites = << >>
  /\ numwhites = 0
  /\ whitestorage = << >>
  /\ whitesused = 0
  /\ npatch = [k \in 1..22 |-> 0]
  /\ pc = "junctions"
  /\ ctl = Ctl0
  /\ hist = Hist0
  /\ draw = Draw0

SpecFan == InitFan /\ [][Next]_vars

(***************************************************************************)
(* The preparation for a wall that stands away from a group of walls       *)
(* meeting at (100, 50).  The group is drawn from a South wall ending      *)
(* there, long or short, and the walls whose orientation there gives      *)
(* one_close its rules of 21 and 10; the other walls are a NE wall ending  *)
(* at (100, 29), 21 pixels above (100, 50), an East wall ending at         *)
(* (100, 40), and an ENE wall far from all of them.                        *)
(***************************************************************************)
TeeWalls ==
  { WallAt(NEW_S, 1, <<100, 50>>, len) : len \in {6, 20} }
  \cup { WallAt(NEW_SSE, 1, <<100, 50>>, 20), WallAt(NEW_SE, 1, <<100, 50>>, 20),
         WallAt(NEW_NNE, 0, <<100, 50>>, 20) }
  \cup { WallAt(NEW_NE, 1, <<100, 29>>, 20), WallAt(NEW_E, 1, <<100, 40>>, 20),
         WallAt(NEW_ENE, 0, <<20, 100>>, 20) }

TeeLists ==
  { ws \in UNION { [1..n -> TeeWalls] : n \in 3..MaxFan } : SortedByStartx(ws) }

InitTee ==
  /\ lines \in TeeLists
  /\ junctions = << >>
  /\ numjunctions = 0
  /\ whites = << >>
  /\ numwhites = 0
  /\ whitestorage = << >>
  /\ whitesused = 0
  /\ npatch = [k \in 1..22 |-> 0]
  /\ pc = "junctions"
  /\ ctl = Ctl0
  /\ hist = Hist0
  /\ draw = Draw0

SpecTee == InitTee /\ [][Next]_vars

(***************************************************************************)
(* The merge loop of init_whites on its own: started on any sorted piece   *)
(* array, and run a second time on its own output.                         *)
(***************************************************************************)
PiecePool ==
  { [x |-> 10, y |-> y, hasj |-> FALSE, ht |-> p[1], data |-> Ptr(p[2]), own |-> 0] :
      y \in {5, 6},
      p \in { <<6, "generictop">>, <<6, "sbot">>, <<6, "eleft">>, <<4, "nepatch">> } }

SortedPieces(ws) ==
  \A k \in 1..(Len(ws) - 1) :
     ws[k].x < ws[k + 1].x \/ (ws[k].x = ws[k + 1].x /\ ws[k].y <= ws[k + 1].y)

PieceArrays ==
  { ws \in UNION { [1..n -> PiecePool] : n \in 1..MaxPieces } : SortedPieces(ws) }

InitMerge ==
  /\ whites \in PieceArrays
  /\ numwhites = Len(whites)
  /\ lines = << >>
  /\ junctions = << >>
  /\ numjunctions = 0
  /\ whitestorage = << >>
  /\ whitesused = 0
  /\ npatch = [k \in 1..22 |-> 63]
  /\ pc = "merge"
  /\ ctl = [Ctl0 EXCEPT !.pass = 1]
  /\ hist = [Hist0 EXCEPT !.sorted = whites]
  /\ draw = Draw0

\* The loop has reached the sentinel: run it again on its own output.
MergeAgain ==
  /\ pc = "merge"
  /\ ctl.pass = 1
  /\ ctl.wh > Len(whites)
  /\ ctl' = [ctl EXCEPT !.wh = 1, !.pass = 2]
  /\ hist' = [hist EXCEPT !.n1 = numwhites]
  /\ UNCHANGED << lines, junctions, numjunctions, whites, numwhites, whitestorage,
                  whitesused, npatch, pc, draw >>

MergeEnd ==
  /\ pc = "merge"
  /\ ctl.pass = 2
  /\ ctl.wh > Len(whites)
  /\ pc' = "merged"
  /\ UNCHANGED << lines, junctions, numjunctions, whites, numwhites, whitestorage,
                  whitesused, npatch, ctl, hist, draw >>

NextMerge ==
  \/ MergeStep
  \/ MergeNext
  \/ MergeAgain
  \/ MergeEnd

SpecMerge == InitMerge /\ [][NextMerge]_vars

(***************************************************************************)
(* white_wall_piece and eor_wall_piece.  The effect of a call is the       *)
(* sequence of longs it combines into the screen, one per row drawn: a     *)
(* long that white_wall_piece ANDs in changes the screen where it has 0    *)
(* bits, a long that eor_wall_piece XORs in where it has 1 bits.           *)
(***************************************************************************)
\* The vertical clipping shared by the two writers: the rows left to draw,
\* or height 0 when the function returns.
VClip(y, def, height) ==
  IF y < 0
  THEN IF height + y <= 0 THEN [y |-> y, def |-> def, height |-> 0]
       ELSE [y |-> 0, def |-> [def EXCEPT !.off = def.off - y], height |-> height + y]
  ELSE IF y + height > VIEWHT
  THEN IF y >= VIEWHT THEN [y |-> y, def |-> def, height |-> 0]
       ELSE [y |-> y, def |-> def, height |-> VIEWHT - y]
  ELSE [y |-> y, def |-> def, height |-> height]

NoClip == << >>

\* A mutant of WhiteClip that clips at the right edge one pixel later.
WhiteClipLate(x) ==
  IF x < 0 THEN (IF x <= -16 THEN NoClip ELSE Not32(LEFT_CLIP))
  ELSE IF x >= SCRWTH - 15 THEN (IF x >= SCRWTH THEN NoClip ELSE Not32(RIGHT_CLIP))
  ELSE Not32(CENTER_CLIP)

\* The clip of white_wall_piece; NoClip stands for "return".
WhiteClip(x) ==
  IF x < 0 THEN (IF x <= -16 THEN NoClip ELSE Not32(LEFT_CLIP))
  ELSE IF x >= SCRWTH - 16 THEN (IF x >= SCRWTH THEN NoClip ELSE Not32(RIGHT_CLIP))
  ELSE Not32(CENTER_CLIP)

\* The clip of eor_wall_piece; NoClip stands for "return".
EorClip(x) ==
  IF x < 0 THEN (IF x <= -16 THEN NoClip ELSE LEFT_CLIP)
  ELSE IF x >= SCRWTH - 16 THEN (IF x >= SCRWTH THEN NoClip ELSE RIGHT_CLIP)
  ELSE CENTER_CLIP

\* and.w #15, x; neg.w x; add.w #16, x
Shift(x) == 16 - (x % 16)

\* moveq #-1, D0; move.w (def)+, D0; rol.l x, D0; or.l clip, D0
WhiteRow(pat, x, clip) == Or32(Rol32(<<65535, pat>>, Shift(x)), clip)

\* moveq #0, D0; move.w (def)+, D0; rol.l x, D0; and.l clip, D0
EorRow(pat, x, clip) == And32(Rol32(<<0, pat>>, Shift(x)), clip)

DrawArgs ==
  { [fn |-> "none", x |-> x, y |-> y, def |-> Ptr(p[2]), height |-> p[1]] :
      x \in (-20)..(SCRWTH + 3),
      y \in {-7, -2, 0, VIEWHT - 3, VIEWHT},
      p \in { <<6, "generictop">>, <<4, "nepatch">> } }

InitDraw ==
  /\ draw \in DrawArgs
  /\ pc = "draw"
  /\ lines = << >>
  /\ junctions = << >>
  /\ numjunctions = 0
  /\ whites = << >>
  /\ numwhites = 0
  /\ whitestorage = << >>
  /\ whitesused = 0
  /\ npatch = [k \in 1..22 |-> 63]
  /\ ctl = Ctl0
  /\ hist = Hist0

white_wall_piece ==
  /\ pc = "draw"
  /\ LET v == VClip(draw.y, draw.def, draw.height)
         clip == IF v.height > 0 THEN WhiteClip(draw.x) ELSE NoClip
         drawn == clip # NoClip
     IN draw' = [fn |-> "white_wall_piece", x |-> draw.x, y |-> draw.y,
                 def |-> draw.def, height |-> draw.height,
                 clip |-> clip,
                 rows |-> IF drawn
                          THEN [i \in 1..v.height |->
                                  WhiteRow(Mem(v.def, i - 1), draw.x, clip)]
                          ELSE << >>,
                 line |-> IF drawn THEN v.y + SBARHT ELSE 0]
  /\ pc' = "drawn"
  /\ UNCHANGED << lines, junctions, numjunctions, whites, numwhites, whitestorage,
                  whitesused, npatch, ctl, hist >>

eor_wall_piece ==
  /\ pc = "draw"
  /\ LET v == VClip(draw.y, draw.def, draw.height)
         clip == IF v.height > 0 THEN EorClip(draw.x) ELSE NoClip
         drawn == clip # NoClip
     IN draw' = [fn |-> "eor_wall_piece", x |-> draw.x, y |-> draw.y,
                 def |-> draw.def, height |-> draw.height,
                 clip |-> clip,
                 rows |-> IF drawn
                          THEN [i \in 1..v.height |->
                                  EorRow(Mem(v.def, i - 1), draw.x, clip)]
                          ELSE << >>,
                 line |-> IF drawn THEN v.y + SBARHT ELSE 0]
  /\ pc' = "drawn"
  /\ UNCHANGED << lines, junctions, numjunctions, whites, numwhites, whitestorage,
                  whitesused, npatch, ctl, hist >>

NextDraw ==
  \/ white_wall_piece
  \/ eor_wall_piece

SpecDraw == InitDraw /\ [][NextDraw]_vars

(***************************************************************************)
(* Properties of the junction-finding pass.                                *)
(***************************************************************************)
\* The k-th end point init_walls looks at: both ends of every wall, in order.
EP(k) == LET line == lines[(k + 1) \div 2]
         IN [x |-> EndX(line, (k + 1) % 2), y |-> EndY(line, (k + 1) % 2)]

Within(n, a, b) == Abs(a.x - b.x) <= n /\ Abs(a.y - b.y) <= n

JunctionsFound == Len(lines) > 0 /\ Len(hist.rep) = 2 * Len(lines)

\* C1 as stated: after the junction-finding pass, two end points within 3
\* pixels on both axes are represented by the same junction, and two end
\* points more than 3 pixels apart on an axis by distinct junctions.
C1_Original ==
  JunctionsFound =>
    \A a, b \in 1..Len(hist.rep) :
       /\ Within(3, EP(a), EP(b)) => hist.rep[a] = hist.rep[b]
       /\ ~Within(3, EP(a), EP(b)) => hist.rep[a] # hist.rep[b]

\* C1 as amended: every end point looked at is represented by a junction of
\* the list that is within 3 pixels of it on both axes; two end points at
\* the same coordinates are represented by the same junction; two end points
\* represented by the same junction are within 6 pixels on both axes, so end
\* points more than 6 pixels apart on an axis have distinct junctions.
C1_Clusters ==
  Len(lines) > 0 =>
    \A a, b \in 1..Len(hist.rep) :
       /\ Within(3, EP(a), hist.rep[a])
       /\ \E k \in 1..Len(hist.jins) : hist.jins[k] = hist.rep[a]
       /\ EP(a) = EP(b) => hist.rep[a] = hist.rep[b]
       /\ ~Within(6, EP(a), EP(b)) => hist.rep[a] # hist.rep[b]

\* The pass is over; two end points within 3 pixels have different junctions
\* and two end points more than 3 pixels apart share one.
C1_Witness ==
  /\ JunctionsFound
  /\ pc = "norm"
  /\ \E a, b \in 1..Len(hist.rep) :
        Within(3, EP(a), EP(b)) /\ hist.rep[a] # hist.rep[b]
  /\ \E a, b \in 1..Len(hist.rep) :
        ~Within(3, EP(a), EP(b)) /\ hist.rep[a] = hist.rep[b]

\* C2: at every point of the preparation (during the insertions, after the
\* sort, after white_hash_merge has removed junctions) no two distinct
\* entries of junctions[0..numjunctions) are within 3 pixels of each other
\* on both axes; the entries in front of the sentinel are those entries.
C2_JunctionsApart ==
  /\ numjunctions = Len(junctions)
  /\ \A a, b \in 1..numjunctions :
        a # b => ~Within(3, junctions[a], junctions[b])

\* The preparation is over, an end point has joined an existing junction,
\* a junction has been removed and at least two are left.
C2_Witness ==
  /\ pc = "done"
  /\ numjunctions >= 2
  /\ numjunctions < Len(hist.jins)
  /\ Len(hist.jins) < Len(hist.rep)

JPos(jn) == CHOOSE k \in 1..Len(hist.jins) : hist.jins[k] = jn

Sorted == pc \in {"norm", "close", "closeloop", "merge", "hash", "done"}

\* C3: from the sort on, and still when the preparation has completed,
\* junctions[0..numjunctions) is in non-decreasing x order, junctions of
\* equal x are in the order in which they were inserted, and every entry
\* is one of the junctions inserted (removing a junction moves no other).
C3_SortedStable ==
  (Sorted /\ Len(lines) > 0) =>
    /\ numjunctions <= Len(junctions)
    /\ \A a \in 1..numjunctions :
          \E k \in 1..Len(hist.jins) : hist.jins[k] = junctions[a]
    /\ \A a, b \in 1..numjunctions :
          a < b => /\ junctions[a].x <= junctions[b].x
                   /\ junctions[a].x = junctions[b].x
                        => JPos(junctions[a]) < JPos(junctions[b])

\* The preparation is over, the sort has moved a junction, two of the
\* junctions inserted have the same x, a junction has been removed and at
\* least two are left.
C3_Witness ==
  /\ pc = "done"
  /\ numjunctions < Len(hist.jins)
  /\ numjunctions >= 2
  /\ \E a, b \in 1..Len(hist.jins) : a < b /\ hist.jins[a].x = hist.jins[b].x
  /\ \E a, b \in 1..Len(hist.jins) : a < b /\ hist.jins[a].x > hist.jins[b].x

(***************************************************************************)
(* Properties of the merge loop.                                           *)
(***************************************************************************)
SamePlace6(a, b) == a.x = b.x /\ a.y = b.y /\ a.ht = 6 /\ b.ht = 6

MergeLoopOver == pc \in {"merge", "merged"} /\ (ctl.pass = 2 \/ ctl.wh > Len(whites))

\* C4: the merge loop is idempotent.  When one run of the loop over a sorted
\* piece array is over, no two consecutive pieces have equal (x, y) with
\* both heights 6, and a second run of the loop over its output leaves
\* numwhites (and the array) as the first run left it.
C4_Idempotent ==
  /\ MergeLoopOver =>
       \A k \in 1..(Len(whites) - 1) : ~SamePlace6(whites[k], whites[k + 1])
  /\ (pc \in {"merge", "merged"} /\ ctl.pass = 2) =>
       numwhites = hist.n1 /\ Len(whites) = hist.n1

\* Both runs are over and the first has merged at least twice.
C4_Witness ==
  /\ pc = "merged"
  /\ hist.n1 + 2 <= Len(hist.sorted)

\* The pieces of the sorted array that the loop merges into the piece that
\* starts at k: the consecutive pieces at the place of k, all of height 6.
RECURSIVE RunEnd(_, _)
RunEnd(s, k) ==
  IF k < Len(s) /\ SamePlace6(s[k], s[k + 1]) THEN RunEnd(s, k + 1) ELSE k

RunStarts(s) == { k \in 1..Len(s) : k = 1 \/ ~SamePlace6(s[k - 1], s[k]) }

\* C5, a single merge: the merge step acts on two consecutive height-6
\* pieces a, b at the same (x, y); the survivor keeps (x, y) and height 6;
\* bit by bit, row i of its bitmap has a bit set exactly when a[i] and b[i]
\* both have it; the rows of a and b, and every int of whitestorage already
\* in use, read as before; every other piece is kept as it was.
C5_Step ==
  (pc = "merge" /\ numwhites' < numwhites) =>
    LET wh == ctl.wh
        a == whites[wh]
        b == whites[wh + 1]
        m == whites'[wh]
    IN /\ SamePlace6(a, b)
       /\ m.x = a.x /\ m.y = a.y /\ m.ht = 6
       /\ numwhites' = numwhites - 1
       /\ Len(whites') = Len(whites) - 1
       /\ \A k \in 1..Len(whites') :
             k # wh => whites'[k] = (IF k < wh THEN whites[k] ELSE whites[k + 1])
       /\ \A k \in 1..whitesused : whitestorage'[k] = whitestorage[k]
       /\ \A i \in 0..5 :
             /\ MemIn(whitestorage', npatch', a.data, i) = Mem(a.data, i)
             /\ MemIn(whitestorage', npatch', b.data, i) = Mem(b.data, i)
             /\ \A bit \in 0..15 :
                   Bit(MemIn(whitestorage', npatch', m.data, i), bit) = 1
                     <=> (Bit(Mem(a.data, i), bit) = 1 /\ Bit(Mem(b.data, i), bit) = 1)

\* C5, k pieces: when the loop is over, every run of k consecutive height-6
\* pieces at one place has left one piece there, of height 6, whose bitmap
\* has a bit set exactly when all k bitmaps have it; a piece that was not
\* merged keeps its bitmap pointer.
C5_Runs ==
  MergeLoopOver =>
    /\ Len(whites) = Cardinality(RunStarts(hist.sorted))
    /\ \A k \in RunStarts(hist.sorted) :
          LET s == hist.sorted
              w == whites[Cardinality({ r \in RunStarts(s) : r <= k })]
          IN /\ w.x = s[k].x /\ w.y = s[k].y /\ w.ht = s[k].ht
             /\ RunEnd(s, k) = k => w.data = s[k].data
             /\ RunEnd(s, k) > k =>
                  \A i \in 0..5, bit \in 0..15 :
                     Bit(Mem(w.data, i), bit) = 1
                       <=> \A n \in k..RunEnd(s, k) : Bit(Mem(s[n].data, i), bit) = 1

\* C5: whenever the merge loop merges two height-6 pieces at one place the
\* survivor is their bitwise AND at that place with height 6, k pieces at
\* one place leave the AND of all k, and the inputs are not modified.
C5_MergeIsAnd == [][C5_Step]_vars /\ []C5_Runs

\* The loop is over; three pieces at one place were merged into one whose
\* bitmap differs from each of the three.
C5_Witness ==
  /\ MergeLoopOver
  /\ \E k \in RunStarts(hist.sorted) :
        /\ RunEnd(hist.sorted, k) >= k + 2
        /\ \A n \in k..RunEnd(hist.sorted, k) :
              \E i \in 0..5 :
                 Mem(hist.sorted[n].data, i)
                   # Mem(whites[Cardinality({ r \in RunStarts(hist.sorted) : r <= k })].data, i)

(***************************************************************************)
(* Properties of white_hash_merge.                                         *)
(***************************************************************************)
\* C6 as stated, for the pieces white_hash_merge considers (height 6 and
\* x > 8, visited before the loop ends at worldwidth - 8): the piece has hasj
\* set if and only if, when it was visited, no_close_wh found it isolated and
\* its (x, y) was the (x, y) of a junction of junctions[0..numjunctions).
C6_Original ==
  \A k \in 1..Len(hist.visits) :
     LET v == hist.visits[k]
     IN (v.ht = 6 /\ v.x > 8) =>
          (whites[v.wh].hasj <=> (v.isolated /\ v.onjunction))

\* C6, one direction: a piece has hasj set only if it was visited, had
\* height 6, was isolated and was at a junction not yet consumed.
C6_OnlyIf ==
  \A n \in 1..Len(whites) :
     whites[n].hasj =>
       \E k \in 1..Len(hist.visits) :
          LET v == hist.visits[k]
          IN v.wh = n /\ v.ht = 6 /\ v.isolated /\ v.onjunction

Hashed == { n \in 1..Len(whites) : whites[n].hasj }

At(r) == [x |-> r.x, y |-> r.y]

LiveJunctions == { junctions[k] : k \in 1..numjunctions }

\* C7: each junction is consumed by at most one crosshatch overlay.  While
\* white_hash_merge runs and when the preparation has completed: every piece
\* with hasj set has taken one junction equal to its (x, y) out of the list
\* and one off numjunctions, so that each junction inserted is either still
\* in junctions[0..numjunctions) or at the place of exactly one piece with
\* hasj set, never both; no two pieces with hasj set have the same (x, y).
C7_OneOverlayPerJunction ==
  pc \in {"hash", "done"} =>
    /\ numjunctions = Len(junctions)
    /\ numjunctions = Len(hist.jins) - Cardinality(Hashed)
    /\ \A n \in Hashed : \E k \in 1..Len(hist.jins) : hist.jins[k] = At(whites[n])
    /\ \A k \in 1..Len(hist.jins) :
          (hist.jins[k] \in LiveJunctions)
            <=> ~(\E n \in Hashed : At(whites[n]) = hist.jins[k])
    /\ \A n, m \in Hashed : n # m => At(whites[n]) # At(whites[m])

\* The preparation is over; two pieces have hasj set and a junction is left.
C7_Witness ==
  /\ pc = "done"
  /\ Cardinality(Hashed) >= 2
  /\ numjunctions >= 1

(***************************************************************************)
(* Properties of norm_whites and close_whites, read in the state in which  *)
(* close_whites returns.                                                   *)
(***************************************************************************)
AfterClose == pc = "closeloop" /\ ctl.line > Len(lines)

EndPt(l, i) == [x |-> EndX(lines[l], i), y |-> EndY(lines[l], i)]

\* Walls s (South) and t (Southeast), the only walls, with end i of s and
\* end j of t both at (100, 50).
SouthMeetsSoutheast(s, t, i, j) ==
  /\ Len(lines) = 2
  /\ lines[s].newtype = NEW_S
  /\ lines[t].newtype = NEW_SE
  /\ EndPt(s, i) = [x |-> 100, y |-> 50]
  /\ EndPt(t, j) = [x |-> 100, y |-> 50]

NPatches(s) ==
  { n \in 1..numwhites : whites[n].data = Ptr("npatch") /\ whites[n].own = s }

\* C8 as stated: for a South and a Southeast wall sharing an end point at
\* (100, 50), close_whites leaves a corrective patch of height 6 built from
\* npatch and the South wall's h2 at length - 6.
C8_Original ==
  AfterClose =>
    \A s, t \in 1..Len(lines), i, j \in {0, 1} :
       SouthMeetsSoutheast(s, t, i, j) =>
         /\ \E n \in NPatches(s) : whites[n].ht = 6
         /\ lines[s].h2 = lines[s].length - 6

\* C8 as amended: when the end of the South wall and the end of the
\* Southeast wall are both at (100, 50), close_whites leaves exactly one
\* npatch piece for the South wall, of height 6 at (endx, endy - 6), and the
\* South wall's h2 at length - 6.
C8_SouthEndMeetsSoutheastEnd ==
  AfterClose =>
    \A s, t \in 1..Len(lines) :
       SouthMeetsSoutheast(s, t, 1, 1) =>
         /\ Cardinality(NPatches(s)) = 1
         /\ \A n \in NPatches(s) :
               /\ whites[n].ht = 6
               /\ whites[n].x = lines[s].endx
               /\ whites[n].y = lines[s].endy - 6
         /\ lines[s].h2 = lines[s].length - 6

\* close_whites has returned for a South wall and a Southeast wall that both
\* end at (100, 50), and one_close was called for that pair of ends.
C8_Witness ==
  /\ AfterClose
  /\ \E s, t \in 1..Len(lines) :
        /\ SouthMeetsSoutheast(s, t, 1, 1)
        /\ \E c \in 1..Len(hist.calls) : hist.calls[c] = <<s, t, 1, 1>>

Shape(w) == [x |-> w.x, y |-> w.y, ht |-> w.ht, data |-> w.data]

\* The pieces made for wall l, in the order of the whites array.
RECURSIVE OwnFrom(_, _)
OwnFrom(l, n) ==
  IF n > numwhites THEN << >>
  ELSE (IF whites[n].own = l THEN << Shape(whites[n]) >> ELSE << >>)
       \o OwnFrom(l, n + 1)

BaselinePiece(l, i) ==
  [x |-> EndX(lines[l], i), y |-> EndY(lines[l], i), ht |-> 6,
   data |-> whitepicts[lines[l].newtype][i + 1]]

DefaultH(l) ==
  /\ lines[l].h1 = simpleh1[lines[l].newtype]
  /\ lines[l].h2 = lines[l].length + simpleh2[lines[l].newtype]

\* The pieces norm_whites makes for a wall by itself.
OwnPieces(l) ==
  LET line == lines[l]
      t == line.newtype
  IN (IF t = NEW_ESE THEN << >> ELSE << BaselinePiece(l, 0) >>)
     \o << BaselinePiece(l, 1) >>
     \o (CASE t = NEW_NE ->
                << [x |-> line.endx - 4, y |-> line.endy + 2, ht |-> 4,
                    data |-> Ptr("neglitch")] >>
           [] t = NEW_ENE ->
                << [x |-> line.startx + 16, y |-> line.starty, ht |-> 3,
                    data |-> Ptr("eneglitch1")],
                   [x |-> line.endx - 10, y |-> line.endy + 1, ht |-> 5,
                    data |-> Ptr("eneglitch2")] >>
           [] t = NEW_ESE ->
                << [x |-> line.endx - 7, y |-> line.endy - 2, ht |-> 4,
                    data |-> Ptr("eseglitch")] >>
           [] OTHER -> << >>)

(***************************************************************************)
(* Properties of the two piece writers.                                    *)
(***************************************************************************)
\* The call has returned and vertical clipping left rows to draw.
DrawnVisible ==
  /\ pc = "drawn"
  /\ VClip(draw.y, draw.def, draw.height).height > 0

\* The bits of the screen long a call may change: white_wall_piece ORs its
\* clip into the long it ANDs in, eor_wall_piece ANDs its clip into the long
\* it XORs in.
WriteMask ==
  IF draw.fn = "white_wall_piece" THEN Not32(draw.clip) ELSE draw.clip

RightHalf == << 0, 65535 >>
LeftHalf == << 65535, 0 >>
FullMask == << 65535, 65535 >>

Skipped == draw.clip = NoClip /\ draw.rows = << >>

\* C10 as stated: x in [-15, -1] writes through the right half only, x in
\* [SCRWTH-15, SCRWTH-1] through the left half only, x <= -16 or x >= SCRWTH
\* writes nothing, and every other x uses the full mask.
C10_Original ==
  DrawnVisible =>
    CASE draw.x <= -16 \/ draw.x >= SCRWTH -> Skipped
      [] draw.x \in (-15)..(-1) -> ~Skipped /\ WriteMask = RightHalf
      [] draw.x \in (SCRWTH - 15)..(SCRWTH - 1) -> ~Skipped /\ WriteMask = LeftHalf
      [] OTHER -> ~Skipped /\ WriteMask = FullMask

\* A row leaves the screen alone outside the mask: the long ANDed in by
\* white_wall_piece has 1 bits there, the long XORed in by eor_wall_piece has
\* 0 bits there.
NeutralOutside(row, mask) ==
  IF draw.fn = "white_wall_piece"
  THEN Or32(row, mask) = FullMask
  ELSE And32(row, Not32(mask)) = << 0, 0 >>

\* C10 as amended: x in [-15, -1] writes through the right half only, x in
\* [SCRWTH-16, SCRWTH-1] through the left half only, x <= -16 or x >= SCRWTH
\* writes nothing, and every other x uses the full mask; every row written
\* leaves the screen unchanged outside the mask.
C10_ClipRanges ==
  DrawnVisible =>
    /\ CASE draw.x <= -16 \/ draw.x >= SCRWTH -> Skipped
         [] draw.x \in (-15)..(-1) -> ~Skipped /\ WriteMask = RightHalf
         [] draw.x \in (SCRWTH - 16)..(SCRWTH - 1) -> ~Skipped /\ WriteMask = LeftHalf
         [] OTHER -> ~Skipped /\ WriteMask = FullMask
    /\ \A i \in 1..Len(draw.rows) : NeutralOutside(draw.rows[i], WriteMask)

\* eor_wall_piece has drawn a piece at x = SCRWTH-16, partly clipped at the
\* top, through the left half.
C10_Witness ==
  /\ DrawnVisible
  /\ draw.fn = "eor_wall_piece"
  /\ draw.x = SCRWTH - 16
  /\ draw.y = -2
  /\ Len(draw.rows) = draw.height - 2
  /\ WriteMask = LeftHalf

(***************************************************************************)
(* Properties of the replace / append entry points, read from the calls    *)
(* one_close made through its function pointer.                            *)
(***************************************************************************)
\* The pieces a call could replace: at the target, with a smaller height.
Matches(e) ==
  { k \in 1..Len(e.before) :
      /\ e.before[k].x = e.targetx
      /\ e.before[k].y = e.targety
      /\ e.before[k].ht < e.ht }

\* The piece the call was given, as it is recorded for wall e.wall.
NewPiece(e, hasj) ==
  [x |-> e.x, y |-> e.y, hasj |-> hasj, ht |-> e.ht, data |-> e.data,
   own |-> e.wall]

\* The call overwrote the piece at k and nothing else.
ReplacedAt(e, k) ==
  /\ Len(e.after) = Len(e.before)
  /\ e.after[k] = NewPiece(e, e.before[k].hasj)
  /\ \A n \in 1..Len(e.before) : n # k => e.after[n] = e.before[n]

\* The call appended the piece and changed nothing else.
Appended(e) == e.after = Append(e.before, NewPiece(e, FALSE))

PatchPresent(e) ==
  \E k \in 1..Len(e.after) : Shape(e.after[k]) = Shape(NewPiece(e, FALSE))

\* C11 as stated: a call through the entry point overwrites a piece only
\* when a piece at the target with a strictly smaller height is recorded;
\* otherwise the new piece is appended, numwhites grows by one and the piece
\* is in the list.
C11_Original ==
  \A c \in 1..Len(hist.entries) :
     LET e == hist.entries[c]
     IN IF e.after # e.before /\ Len(e.after) = Len(e.before)
        THEN \E k \in Matches(e) : ReplacedAt(e, k)
        ELSE Appended(e)

\* C11 as amended: replace_white_2 overwrites the first piece at the target
\* with a strictly smaller height, and when there is none it changes nothing
\* (numwhites stays, no piece is appended); a piece is appended, and
\* numwhites grows by one, only through add_white_2, which one_close calls
\* when the wall's h2 is not yet below its length.  After either call a piece
\* with the new position, height and bitmap is in the list.
C11_ReplaceOrNothing ==
  \A c \in 1..Len(hist.entries) :
     LET e == hist.entries[c]
     IN /\ (e.fn = "replace_white_2") <=> (e.h2 < e.length)
        /\ e.fn = "replace_white_2" =>
             IF Matches(e) = { }
             THEN e.after = e.before
             ELSE ReplacedAt(e, CHOOSE k \in Matches(e) :
                                   \A m \in Matches(e) : k <= m)
        /\ e.fn = "add_white_2" => Appended(e)
        /\ PatchPresent(e)

\* close_whites has returned; for one wall it called add_white_2, then
\* replace_white_2 replacing a piece, then replace_white_2 finding none.
C11_Witness ==
  /\ AfterClose
  /\ \E a, b, c \in 1..Len(hist.entries) :
        /\ a < b /\ b < c
        /\ hist.entries[a].fn = "add_white_2"
        /\ hist.entries[b].fn = "replace_white_2"
        /\ Matches(hist.entries[b]) # { }
        /\ hist.entries[c].fn = "replace_white_2"
        /\ Matches(hist.entries[c]) = { }

(***************************************************************************)
(* Properties of h1 and h2 after close_whites.                             *)
(***************************************************************************)
ClosedWhites == AfterClose \/ pc \in {"merge", "hash", "done"}

\* C12 as stated: after close_whites every wall has h1 <= h2.
C12_Original ==
  ClosedWhites => \A l \in 1..Len(lines) : lines[l].h1 <= lines[l].h2

\* The length from which a wall of each direction keeps h1 <= h2: the
\* defaults need simpleh1 <= length + simpleh2; a South wall can lose 21 at
\* its end (h2 = length - 21 against h1 = 6) and a NE wall can have h1 raised
\* to 25 (against h2 = length - 5).
MinLength ==
  << 27, 6, 6, 13, 16, 11, 30, 5 >>

\* C12 as amended: after close_whites every wall at least as long as
\* MinLength of its direction (27 for S, 6 for SSE and SE, 13 for ESE, 16
\* for E, 11 for ENE, 30 for NE, 5 for NNE) has h1 <= h2; h1 is never below
\* and h2 never above its default.
C12_LongEnough ==
  ClosedWhites =>
    \A l \in 1..Len(lines) :
       /\ lines[l].h1 >= simpleh1[lines[l].newtype]
       /\ lines[l].h2 <= lines[l].length + simpleh2[lines[l].newtype]
       /\ lines[l].length >= MinLength[lines[l].newtype] =>
            lines[l].h1 <= lines[l].h2

\* close_whites has returned; a NE wall of length 30 had h1 raised from 1
\* to 25, which is its h2.
C12_Witness ==
  /\ AfterClose
  /\ \E l \in 1..Len(lines) :
        /\ lines[l].newtype = NEW_NE /\ lines[l].length = 30
        /\ lines[l].h1 = 25 /\ lines[l].h2 = 25

(***************************************************************************)
(* Properties of the sweep of close_whites.                                *)
(***************************************************************************)
\* End i of wall l lies inside the 6x6 box around end j of wall l2.
Qualifies(l, i, l2, j) ==
  /\ Abs(EndPt(l, i).x - EndPt(l2, j).x) < 3
  /\ Abs(EndPt(l, i).y - EndPt(l2, j).y) < 3

\* The premise of C13; every list of the model satisfies it.
SortedWalls ==
  /\ SortedByStartx(lines)
  /\ \A l \in 1..Len(lines) : lines[l].startx <= lines[l].endx

\* C13: for a wall list sorted by startx with startx <= endx, close_whites
\* has called one_close(line, line2, i, j) once for every ordered pair of
\* end points of which the first lies inside the 6x6 box around the second
\* (|dx| < 3 and |dy| < 3), and for no other pair; while it runs, it has
\* called it for exactly the qualifying pairs of the walls already swept.
C13_AllClosePairs ==
  (pc \in {"closeloop", "merge", "hash", "done"} /\ SortedWalls) =>
    LET swept == IF pc = "closeloop" THEN ctl.line - 1 ELSE Len(lines)
    IN /\ \A l \in 1..swept, l2 \in 1..Len(lines), i, j \in {0, 1} :
             Qualifies(l, i, l2, j) <=>
               \E c \in 1..Len(hist.calls) : hist.calls[c] = <<l, l2, i, j>>
       /\ \A c \in 1..Len(hist.calls) : hist.calls[c][1] \in 1..swept
       /\ \A c, d \in 1..Len(hist.calls) :
             hist.calls[c] = hist.calls[d] => c = d

\* close_whites has returned; its first pointer has moved past a wall, and
\* behind it one_close was called for the end points of two different walls
\* in both orders.
C13_Witness ==
  /\ AfterClose
  /\ SortedWalls
  /\ ctl.first > 1
  /\ \E c, d \in 1..Len(hist.calls) :
        /\ hist.calls[c][1] # hist.calls[c][2]
        /\ hist.calls[d] = << hist.calls[c][2], hist.calls[c][1],
                              hist.calls[c][4], hist.calls[c][3] >>

(***************************************************************************)
(* Properties of the order of the pieces.                                  *)
(***************************************************************************)
\* (x, y) of a is not after (x, y) of b in lexicographic order.
LexLeq(a, b) == a.x < b.x \/ (a.x = b.x /\ a.y <= b.y)

InOrder(ws) == \A k \in 1..(Len(ws) - 1) : LexLeq(ws[k], ws[k + 1])

\* The pieces of ws at the place of p, in the order of ws.
AtPlace(ws, p) == SelectSeq(ws, LAMBDA w : w.x = p.x /\ w.y = p.y)

\* What a piece keeps when its bitmap and hasj are updated in place.
Fixed(w) == [x |-> w.x, y |-> w.y, ht |-> w.ht, own |-> w.own]

\* The live pieces are in (x, y) order, the sort kept the pieces of each
\* place in their creation order, and numwhites counts them.
C14_Ordered ==
  pc \in {"merge", "hash", "done"} =>
    /\ numwhites = Len(whites)
    /\ InOrder(whites)
    /\ InOrder(hist.sorted)
    /\ Len(hist.sorted) = Len(hist.created)
    /\ \A k \in 1..Len(hist.created) :
          AtPlace(hist.sorted, hist.created[k])
            = AtPlace(hist.created, hist.created[k])

\* A step of the merge loop or of white_hash_merge leaves every remaining
\* piece where it was among the others: the pieces are the same in the same
\* order, but for the one piece a merge takes out, which was right behind a
\* piece of the same place.
C14_Step ==
  pc \in {"merge", "hash"} =>
    \/ /\ Len(whites') = Len(whites)
       /\ \A k \in 1..Len(whites) : Fixed(whites'[k]) = Fixed(whites[k])
    \/ \E r \in 2..Len(whites) :
          /\ Len(whites') = Len(whites) - 1
          /\ At(whites[r]) = At(whites[r - 1])
          /\ \A k \in 1..(r - 1) : Fixed(whites'[k]) = Fixed(whites[k])
          /\ \A k \in r..Len(whites') : Fixed(whites'[k]) = Fixed(whites[k + 1])

\* C14: when init_whites returns the live pieces whites[0..numwhites) are in
\* non-decreasing lexicographic (x, y) order; the insertion sort establishes
\* it and keeps pieces of equal (x, y) in their creation order; the merge
\* loop's splice and the in-place update of white_hash_merge change neither
\* the order nor the position of a remaining piece.
C14_SortedWhites == [][C14_Step]_vars /\ []C14_Ordered

\* init_whites has returned; the sort moved pieces, it met pieces of equal
\* (x, y), a merge took a piece out and white_hash_merge updated one.
C14_Witness ==
  /\ pc = "done"
  /\ hist.sorted # hist.created
  /\ \E k \in 1..Len(hist.created) :
        Len(AtPlace(hist.created, hist.created[k])) >= 2
  /\ Len(whites) < Len(hist.sorted)
  /\ Hashed # { }

(***************************************************************************)
(* Properties of the pieces of a wall that no other wall comes near.       *)
(***************************************************************************)
\* The points of wall w, from its start to its end.
WallPoints(w) ==
  { [x |-> w.startx + DeltaX(w.newtype, k), y |-> w.starty + DeltaY(w.newtype, k)] :
      k \in 0..w.length }

\* No point of another wall is within 6 pixels, on both axes, of either end
\* point of wall l.
Isolated(l) ==
  \A l2 \in 1..Len(lines), i \in {0, 1} :
     l2 # l => \A p \in WallPoints(lines[l2]) : ~Within(6, EndPt(l, i), p)

\* C9 as stated: a wall of any direction that no other wall comes within 6
\* pixels of has exactly two pieces, its baseline start and end pieces, and
\* its h1 and h2 are the defaults.
C9_Original ==
  AfterClose =>
    \A l \in 1..Len(lines) :
       Isolated(l) =>
         /\ OwnFrom(l, 1) = << BaselinePiece(l, 0), BaselinePiece(l, 1) >>
         /\ DefaultH(l)

\* The calls of replace_white_2 that overwrote piece p of wall l.
Overwrites(l, p) ==
  { c \in 1..Len(hist.entries) :
      \E k \in Matches(hist.entries[c]) :
         /\ ReplacedAt(hist.entries[c], k)
         /\ hist.entries[c].before[k].own = l
         /\ Shape(hist.entries[c].before[k]) = p }

\* The pieces norm_whites made for wall l that no call overwrote.
Kept(l) == SelectSeq(OwnPieces(l), LAMBDA p : Overwrites(l, p) = { })

\* The call was made for the end of a South wall, and its target is the place
\* 6, 10 or 21 pixels above that end where an earlier rule put its patch.
AtEarlierPatch(e) ==
  /\ lines[e.wall].newtype = NEW_S
  /\ e.targetx = lines[e.wall].endx
  /\ lines[e.wall].endy - e.targety \in {6, 10, 21}
  /\ e.h2 = lines[e.wall].length - (lines[e.wall].endy - e.targety)

\* C9 as amended: norm_whites makes for every wall its baseline end point
\* pieces (two, but for an ESE wall only the end piece: its start has none)
\* followed by the glitch pieces of its direction (NE one, ENE two, ESE one,
\* the other directions none): two pieces in all for S, SSE, SE, ESE, E and
\* NNE, three for NE, four for ENE.  When close_whites returns, a wall that
\* no other wall comes within 6 pixels of has these pieces and no other, in
\* this order, and its h1 and h2 are the defaults, with one exception: a
\* piece is no longer the wall's when it lay exactly where an earlier rule of
\* one_close had put the patch of a South wall's end (6, 10 or 21 pixels
\* above that end) and a later rule for that end called replace_white_2 with
\* a greater height, which overwrites the first lower piece at that place,
\* whichever wall it was made for.
C9_IsolatedWall ==
  AfterClose =>
    \A l \in 1..Len(lines) :
       Isolated(l) =>
         /\ OwnFrom(l, 1) = Kept(l)
         /\ Len(OwnPieces(l)) =
              (CASE lines[l].newtype = NEW_NE -> 3
                 [] lines[l].newtype = NEW_ENE -> 4
                 [] OTHER -> 2)
         /\ \A k \in 1..Len(OwnPieces(l)) :
               \A c \in Overwrites(l, OwnPieces(l)[k]) :
                  /\ hist.entries[c].wall # l
                  /\ hist.entries[c].fn = "replace_white_2"
                  /\ AtEarlierPatch(hist.entries[c])
         /\ DefaultH(l)

\* close_whites has returned for four walls: a NE wall that no other wall
\* comes near, which is left with its start piece and its glitch piece only
\* because a call for the South wall's end overwrote its end piece, and the
\* walls that gave that end its two rules.
C9_Witness ==
  /\ AfterClose
  /\ Len(lines) = 4
  /\ \E l \in 1..4 :
        /\ Isolated(l)
        /\ lines[l].newtype = NEW_NE
        /\ Overwrites(l, BaselinePiece(l, 1)) # { }
        /\ Len(OwnFrom(l, 1)) = 2
        /\ \E s \in 1..4 :
              /\ lines[s].newtype = NEW_S
              /\ \E c1, c2 \in 1..Len(hist.entries) :
                    /\ c1 < c2
                    /\ hist.entries[c1].wall = s
                    /\ hist.entries[c2].wall = s

=============================================================================
